---- MODULE Spec2Model ----
(***************************************************************************)
(* Model of datum::utility::ringbuffer / ringbuffer::ringbuffer, the fixed *)
(* capacity circular buffer of src/ringbuffer.hpp (single threaded) and    *)
(* src/atomic_ringbuffer.hpp (one writer, many readers).                   *)
(*                                                                         *)
(* Spec is one caller making one call after the other.  SpecAtomic is      *)
(* several threads calling into one atomic ringbuffer, each call taking    *)
(* rwlock as the source does.                                              *)
(*                                                                         *)
(* Pointers into the backing array are modelled by their index            *)
(* (p - first), so first is index 0 and last is index N - 1.  The count    *)
(* `available` is a std::size_t and keeps its width: every subtraction is  *)
(* taken modulo 2^SizeBits.                                                *)
(***************************************************************************)
EXTENDS Integers, Sequences, FiniteSets, TLC

\* ------------------------------------------------------------- bounds
\* Template parameter N (the capacity) of the modelled instantiation.
N == 3
\* Elements the caller emplaces are 1..MaxVal; 0 is the default constructed T().
MaxVal == 2
\* How far below zero (modulo 2^SizeBits) the count is followed.
MaxUnder == 1
\* Width of std::size_t in bits that is modelled (the least the language allows).
SizeBits == 16
\* Threads that call into one atomic ringbuffer.
Threads == 2
\* Advances n of wrapfront(p, n) that are tried: 0..MaxAdvance, and as many
\* at the top of std::size_t.
MaxAdvance == 20

\* What a slot holds after readpos->~T(): no object.  A read of such a slot
\* yields this value, which is equal to no element.
Destroyed == -1

SizeMod == 2 ^ SizeBits
Values == 1 .. MaxVal
SlotValues == Destroyed .. MaxVal
Index == 0 .. (N - 1)
\* Arguments n of read(n), safe_read(n), erase(n) that are tried.
Args == 0 .. (N + 1)
Thread == 1 .. Threads
\* std::mutex mut when no thread owns it.
Unlocked == 0

VARIABLES
    buff,       \* backing_type buff: Index -> SlotValues
    readpos,    \* index of readpos
    writepos,   \* index of writepos
    available,  \* std::size_t available
    fifo,       \* history: elements constructed by emplace that the read
                \* cursor has not passed yet, oldest first
    last,       \* the last call: [op, n, status, ret]
    pre,        \* the state the last call started from
    mut,        \* rw_mutex::mut: Unlocked, or the thread that owns it
    readers,    \* rw_mutex::readers
    pc,         \* where each thread is in its call
    req         \* each thread's call: [op, status]

vars ==
    <<buff, readpos, writepos, available, fifo, last, pre, mut, readers, pc,
      req>>

\* The buffer as one value.
Cur ==
    [buff |-> buff, readpos |-> readpos, writepos |-> writepos,
     available |-> available, fifo |-> fifo]

Min(a, b) == IF a <= b THEN a ELSE b

\* size_t subtraction.
SubSz(a, b) == (a - b + SizeMod) % SizeMod

\* The history with its k oldest elements dropped.
Drop(q, k) == IF k >= Len(q) THEN <<>> ELSE SubSeq(q, k + 1, Len(q))

\* ------------------------------------------------------------ wrapfront
wrapfront_WrapsToOne(p, n0) ==
    LET n == IF n0 > N THEN n0 % N ELSE n0
    IN  IF p + n > N - 1
        THEN (n - ((N - 1) - p)) % N
        ELSE p + n

wrapfront(p, n0) ==
    LET n == IF n0 > N THEN n0 % N ELSE n0
    IN  IF p + n > N - 1
        THEN n - 1 - ((N - 1) - p)
        ELSE p + n

\* ------------------------------------------------------- size / capacity
size(s) == s.available

capacity(s) == SubSz(N, s.available)

\* A call's outcome: the buffer afterwards, how the call ended and what it
\* returned (for a call that threw: what it had put in its result so far).
Outcome(s, status, ret) == [s |-> s, status |-> status, ret |-> ret]

\* --------------------------------------------------------------- emplace
\* if (available < N)
HasRoom_Inclusive(s) == s.available <= N

HasRoom(s) == s.available < N

\* new (writepos) T(args...) may throw: nothing after it runs, and the slot
\* holds no object.
emplace(s, v, fail) ==
    IF ~HasRoom(s)
    THEN Outcome(s, "ok", <<>>)
    ELSE IF fail
    THEN Outcome([s EXCEPT !.buff[s.writepos] = Destroyed],
                 "element_failure", <<>>)
    ELSE Outcome([s EXCEPT !.buff[s.writepos] = v,
                           !.writepos = wrapfront(s.writepos, 1),
                           !.available = (s.available + 1) % SizeMod,
                           !.fifo = Append(s.fifo, v)],
                 "ok", <<>>)

\* ------------------------------------------------------------------- pop
pop_Unguarded(s) ==
    Outcome([s EXCEPT !.buff[s.readpos] = Destroyed,
                      !.readpos = wrapfront(s.readpos, 1),
                      !.available = SubSz(s.available, 1),
                      !.fifo = Drop(s.fifo, 1)],
            "ok", <<>>)

pop(s) ==
    IF s.available # 0
    THEN Outcome([s EXCEPT !.buff[s.readpos] = Destroyed,
                           !.readpos = wrapfront(s.readpos, 1),
                           !.available = SubSz(s.available, 1),
                           !.fifo = Drop(s.fifo, 1)],
                 "ok", <<>>)
    ELSE Outcome(s, "ok", <<>>)

\* ----------------------------------------------------------------- front
front(s) ==
    IF s.available # 0
    THEN Outcome(s, "ok", <<s.buff[s.readpos]>>)
    ELSE Outcome(s, "out_of_range", <<>>)

\* ---------------------------------------------------------------- read()
\* fail: the copy of the returned element throws.
read(s, fail) ==
    IF s.available # 0
    THEN LET deref == s.readpos
             t == [s EXCEPT !.available = SubSz(s.available, 1),
                            !.readpos = wrapfront(s.readpos, 1),
                            !.fifo = Drop(s.fifo, 1)]
         IN  IF fail
             THEN Outcome(t, "element_failure", <<>>)
             ELSE Outcome(t, "ok", <<s.buff[deref]>>)
    ELSE Outcome(s, "out_of_range", <<>>)

\* --------------------------------------------------------------- read(n)
\* if (n <= available)
Enough_OffByOne(s, n) == n <= s.available + 1

Enough(s, n) == n <= s.available

\* while (available-- > cap) { deref = readpos; readpos = wrapfront(readpos);
\*                             result.emplace_back(*deref); }
\* failAt = i: the i-th emplace_back throws (0: none does).
RECURSIVE read_loop(_, _, _, _, _)
read_loop(s, cap, result, failAt, i) ==
    LET test == s.available > cap
        s1 == [s EXCEPT !.available = SubSz(s.available, 1)]
    IN  IF ~test
        THEN Outcome(s1, "ok", result)
        ELSE LET deref == s1.readpos
                 s2 == [s1 EXCEPT !.readpos = wrapfront(s1.readpos, 1),
                                  !.fifo = Drop(s1.fifo, 1)]
             IN  IF failAt = i
                 THEN Outcome(s2, "element_failure", result)
                 ELSE read_loop(s2, cap, Append(result, s1.buff[deref]),
                                failAt, i + 1)

read_n(s, n, failAt) ==
    IF Enough(s, n)
    THEN read_loop(s, SubSz(s.available, n), <<>>, failAt, 1)
    ELSE Outcome(s, "out_of_range", <<>>)

read_all(s, failAt) == read_n(s, s.available, failAt)

\* --------------------------------------------------------- temporary_copy
\* The slot at index i as a copy reads it; an index past the array reads
\* whatever follows the array in the object: garbage[i].
Slot(s, garbage, i) == IF i \in Index THEN s.buff[i] ELSE garbage[i]

\* The indices past the array temporary_copy(n) reads.
OutOfArray(s, n0) ==
    LET n == Min(n0, s.available)
        m == (N - 1) - s.readpos
    IN  IF s.readpos + n <= N - 1 THEN {} ELSE N .. (n - m)

temporary_copy(s, n0, garbage) ==
    LET n == Min(n0, s.available)
    IN  IF s.readpos + n <= N - 1
        THEN [k \in 1 .. n |-> s.buff[s.readpos + k - 1]]
        ELSE LET m == (N - 1) - s.readpos
                 firstSeg == [k \in 1 .. (m + 1) |-> s.buff[s.readpos + k - 1]]
                 secondSeg == [k \in 1 .. (n - m + 1) |-> Slot(s, garbage, k - 1)]
             \* both are inserted at std::begin(buffcopy): the second lands
             \* in front of the first
             IN  secondSeg \o firstSeg

\* The indices temporary_copy(n) reads, in the order it reads them: one
\* range when readpos + n <= last, else first_buff_begin .. first_buff_end
\* and then second_buff_begin .. second_buff_end.
SlotsRead(s, n0) ==
    LET n == Min(n0, s.available)
    IN  IF s.readpos + n <= N - 1
        THEN [k \in 1 .. n |-> s.readpos + k - 1]
        ELSE LET m == (N - 1) - s.readpos
             IN  [k \in 1 .. (m + 1) |-> s.readpos + k - 1]
                 \o [k \in 1 .. (n - m + 1) |-> k - 1]

\* ------------------------------------------------------------ safe_read(n)
\* fail: copying an element into the temporary copy throws.
safe_read_AdvanceOne(s, n, fail, garbage) ==
    IF Enough(s, n)
    THEN IF fail
         THEN Outcome(s, "element_failure", <<>>)
         ELSE Outcome([s EXCEPT !.available = SubSz(s.available, n),
                                !.readpos = wrapfront(s.readpos, 1),
                                !.fifo = Drop(s.fifo, n)],
                      "ok", temporary_copy(s, n, garbage))
    ELSE Outcome(s, "out_of_range", <<>>)

safe_read_MutateFirst(s, n, fail, garbage) ==
    IF Enough(s, n)
    THEN LET t == [s EXCEPT !.available = SubSz(s.available, n),
                            !.readpos = wrapfront(s.readpos, n),
                            !.fifo = Drop(s.fifo, n)]
         IN  IF fail
             THEN Outcome(t, "element_failure", <<>>)
             ELSE Outcome(t, "ok", temporary_copy(s, n, garbage))
    ELSE Outcome(s, "out_of_range", <<>>)

safe_read(s, n, fail, garbage) ==
    IF Enough(s, n)
    THEN IF fail
         THEN Outcome(s, "element_failure", <<>>)
         ELSE Outcome([s EXCEPT !.available = SubSz(s.available, n),
                                !.readpos = wrapfront(s.readpos, n),
                                !.fifo = Drop(s.fifo, n)],
                      "ok", temporary_copy(s, n, garbage))
    ELSE Outcome(s, "out_of_range", <<>>)

safe_read_all(s, fail, garbage) == safe_read(s, s.available, fail, garbage)

\* ----------------------------------------------------------------- erase
\* while (m--) { readpos->~T(); readpos = wrapfront(readpos); available -= 1; }
RECURSIVE erase_loop(_, _)
erase_loop(s, m) ==
    IF m = 0
    THEN Outcome(s, "ok", <<>>)
    ELSE erase_loop([s EXCEPT !.buff[s.readpos] = Destroyed,
                              !.readpos = wrapfront(s.readpos, 1),
                              !.available = SubSz(s.available, 1),
                              !.fifo = Drop(s.fifo, 1)],
                    m - 1)

erase_NoClamp(s, n) == erase_loop(s, n)

erase(s, n) == erase_loop(s, Min(n, s.available))

clear(s) == erase(s, s.available)

\* ----------------------------------------------------------- ~ringbuffer
\* ~ringbuffer() = default destroys the member buff, a std::array<T, N>:
\* the destructor of T runs on each of the N slots, whatever the cursors
\* and the count say.
destroy_buff(s) ==
    Outcome([s EXCEPT !.buff = [i \in Index |-> Destroyed]], "ok", <<>>)

\* The slots on which a call `op` with argument n, made in state s, runs
\* the destructor of T, in order: `readpos->~T()` in pop and in the loop of
\* erase, every slot in ~ringbuffer.  read(), read(n) and safe_read(n) have
\* no destructor call.
Destroys(op, n, s) ==
    CASE op = "pop" -> IF s.available # 0 THEN <<s.readpos>> ELSE <<>>
      [] op \in {"erase", "clear"} ->
            [k \in 1 .. Min(n, s.available) |-> wrapfront(s.readpos, k - 1)]
      [] op = "~ringbuffer" -> [k \in 1 .. N |-> k - 1]
      [] OTHER -> <<>>

\* The slots in which the call constructs an object: `new (writepos) T`.
Constructs(op, s) ==
    IF op = "emplace" /\ HasRoom(s) THEN <<s.writepos>> ELSE <<>>

\* ------------------------------------------------------------- the calls
\* The states calls are made from: the count is within MaxUnder of a wrap
\* below zero, and the history holds no more elements than the array has
\* slots.
Followed(s) ==
    /\ s.available <= N \/ s.available >= SizeMod - MaxUnder
    /\ Len(s.fifo) <= N

\* What a call `op` with argument n that ended as outcome r does to the
\* buffer.
Effect(op, n, r) ==
    /\ Followed(Cur)
    /\ buff' = r.s.buff
    /\ readpos' = r.s.readpos
    /\ writepos' = r.s.writepos
    /\ available' = r.s.available
    /\ fifo' = r.s.fifo
    /\ last' = [op |-> op, n |-> n, status |-> r.status, ret |-> r.ret]
    /\ pre' = Cur

\* The record of the last call once the caller has taken its result.
Returned == [op |-> "none", n |-> 0, status |-> "ok", ret |-> <<>>]

\* A call of the single caller, made once the call before it has returned.
Call(op, n, r) ==
    /\ last.op \in {"ringbuffer", "none"}
    /\ Effect(op, n, r)
    /\ UNCHANGED <<mut, readers, pc, req>>

\* The single caller takes the result of its call; the buffer is as the
\* call left it.
Return ==
    /\ last.op \notin {"ringbuffer", "none"}
    /\ Followed(Cur)
    /\ last' = Returned
    /\ pre' = Cur
    /\ UNCHANGED <<buff, readpos, writepos, available, fifo, mut, readers, pc,
                   req>>

NoCall == [op |-> "none", status |-> "ok"]

Init ==
    /\ buff = [i \in Index |-> 0]
    /\ readpos = 0
    /\ writepos = 0
    /\ available = 0
    /\ fifo = <<>>
    /\ last = [op |-> "ringbuffer", n |-> 0, status |-> "ok", ret |-> <<>>]
    /\ pre = [buff |-> [i \in Index |-> 0], readpos |-> 0, writepos |-> 0,
              available |-> 0, fifo |-> <<>>]
    /\ mut = Unlocked
    /\ readers = 0
    /\ pc = [t \in Thread |-> "idle"]
    /\ req = [t \in Thread |-> NoCall]

\* The constructor of the element can throw only where it runs.
Emplace ==
    \E v \in Values, fail \in {FALSE} \cup {HasRoom(Cur)} :
        Call("emplace", v, emplace(Cur, v, fail))

Pop == Call("pop", 0, pop(Cur))

Front == Call("front", 0, front(Cur))

\* The copies a call makes, each of which may throw: none when the call
\* throws out_of_range before it copies anything.
Copies(n) == IF Enough(Cur, n) THEN n ELSE 0

Read ==
    \E fail \in {FALSE} \cup {available # 0} :
        Call("read", 0, read(Cur, fail))

ReadN ==
    \E n \in Args : \E failAt \in 0 .. Copies(n) :
        Call("read_n", n, read_n(Cur, n, failAt))

ReadAll ==
    /\ available \in Args
    /\ \E failAt \in 0 .. available :
           Call("read_all", available, read_all(Cur, failAt))

SafeReadN ==
    \E n \in Args :
        \/ /\ Copies(n) > 0
           /\ Call("safe_read", n, safe_read(Cur, n, TRUE, <<>>))
        \/ \E garbage \in [OutOfArray(Cur, n) -> SlotValues] :
               Call("safe_read", n, safe_read(Cur, n, FALSE, garbage))

SafeReadAll ==
    /\ available \in Args
    /\ \/ /\ available > 0
          /\ Call("safe_read_all", available,
                  safe_read_all(Cur, TRUE, <<>>))
       \/ \E garbage \in [OutOfArray(Cur, available) -> SlotValues] :
              Call("safe_read_all", available,
                   safe_read_all(Cur, FALSE, garbage))

Erase == \E n \in Args : Call("erase", n, erase(Cur, n))

Clear ==
    /\ available \in Args
    /\ Call("clear", available, clear(Cur))

Next ==
    \/ Emplace
    \/ Pop
    \/ Front
    \/ Read
    \/ ReadN
    \/ ReadAll
    \/ SafeReadN
    \/ SafeReadAll
    \/ Erase
    \/ Clear
    \/ Return

Spec == Init /\ [][Next]_vars

\* Callers that only ever call emplace and pop, and may look at the buffer
\* with one read_all() at the end.
ReturnEmplacePop == last.op \in {"emplace", "pop"} /\ Return

NextEmplacePop ==
    \/ Emplace
    \/ Pop
    \/ ReadAll
    \/ ReturnEmplacePop

SpecEmplacePop == Init /\ [][NextEmplacePop]_vars

\* ----------------------------------------------------- wrapfront alone
\* wrapfront applied to the read cursor, over and over, with any advance.
Advances == (0 .. MaxAdvance) \cup ((SizeMod - 1 - MaxAdvance) .. (SizeMod - 1))

Wrapfront ==
    /\ \E n \in Advances :
           /\ readpos' = wrapfront(readpos, n)
           /\ last' = [op |-> "wrapfront", n |-> n, status |-> "ok",
                       ret |-> <<>>]
    /\ pre' = Cur
    /\ UNCHANGED <<buff, writepos, available, fifo, mut, readers, pc, req>>

SpecWrapfront == Init /\ [][Wrapfront]_vars

\* ------------------------------------------------- atomic_ringbuffer calls
\* A thread calls emplace(v) or pop().
Invoke(t) ==
    /\ pc[t] = "idle"
    /\ \E op \in {"emplace", "pop"} :
           req' = [req EXCEPT ![t] = [op |-> op, status |-> "running"]]
    /\ pc' = [pc EXCEPT ![t] = "write_lock"]
    /\ UNCHANGED <<buff, readpos, writepos, available, fifo, last, pre, mut,
                   readers>>

\* mut.try_lock() succeeds when no thread owns mut.
try_lock_Always(m) == TRUE

try_lock(m) == m = Unlocked

\* while (!mut.try_lock()) continue;
write_lock(t) ==
    /\ pc[t] = "write_lock"
    /\ try_lock(mut)
    /\ mut' = t
    /\ pc' = [pc EXCEPT ![t] = "body"]
    /\ UNCHANGED <<buff, readpos, writepos, available, fifo, last, pre,
                   readers, req>>

\* Where a call goes when its body is left with `status`: the writer_entity
\* is destroyed on return and on unwinding alike.
Leave_ReturnOnly(status) == IF status = "ok" THEN "write_unlock" ELSE "idle"

Leave(status) == "write_unlock"

\* The body of a call that ended as outcome r, run while the thread owns mut.
Body(t, n, r) ==
    /\ pc[t] = "body"
    /\ Effect(req[t].op, n, r)
    /\ req' = [req EXCEPT ![t].status = r.status]
    /\ pc' = [pc EXCEPT ![t] = Leave(r.status)]
    /\ UNCHANGED <<mut, readers>>

AtomicEmplace(t) ==
    /\ req[t].op = "emplace"
    /\ \E v \in Values, fail \in {FALSE} \cup {HasRoom(Cur)} :
           Body(t, v, emplace(Cur, v, fail))

AtomicPop(t) ==
    /\ req[t].op = "pop"
    /\ Body(t, 0, pop(Cur))

\* mut.unlock();
write_unlock(t) ==
    /\ pc[t] = "write_unlock"
    /\ mut' = Unlocked
    /\ pc' = [pc EXCEPT ![t] = "idle"]
    /\ UNCHANGED <<buff, readpos, writepos, available, fifo, last, pre,
                   readers, req>>

NextAtomic ==
    \E t \in Thread :
        \/ Invoke(t)
        \/ write_lock(t)
        \/ AtomicEmplace(t)
        \/ AtomicPop(t)
        \/ write_unlock(t)

SpecAtomic == Init /\ [][NextAtomic]_vars

\* ------------------------------------------- calls up to the destructor
\* The buffer goes out of scope: no member function is called after that.
Destructor == Call("~ringbuffer", 0, destroy_buff(Cur))

\* The caller takes the result of a call on a buffer that still exists.
ReturnAlive == last.op # "~ringbuffer" /\ Return

NextLifetime ==
    \/ Emplace
    \/ Pop
    \/ Front
    \/ Read
    \/ ReadN
    \/ ReadAll
    \/ SafeReadN
    \/ SafeReadAll
    \/ Erase
    \/ Clear
    \/ ReturnAlive
    \/ Destructor

SpecLifetime == Init /\ [][NextLifetime]_vars

\* --------------------------------------- atomic_ringbuffer, every call
\* The operations that take rwlock as writers: those called with their
\* arguments at hand, and those that load the count first.
Writers == {"emplace", "pop", "read", "read_n", "safe_read", "erase"}
Loaded == {"read_all", "safe_read_all", "clear"}
SafeReadOps == {"safe_read", "safe_read_all"}

\* A call in progress: the operation, the argument where it is evaluated
\* before the call takes rwlock, how the body ended, what front() returned
\* and the elements that have been the oldest since front() was called.
Request(op, n, seen) ==
    [op |-> op, n |-> n, status |-> "running", ret |-> <<>>, seen |-> seen]

\* The oldest element of s, if it has one.
Oldest(s) == IF s.fifo = <<>> THEN {} ELSE {s.fifo[1]}

\* Thread t calls `op`; the call starts at `entry`.
Begin(t, op, n, entry) ==
    /\ pc[t] = "idle"
    /\ Followed(Cur)
    /\ req' = [req EXCEPT ![t] =
                  Request(op, n, IF op = "front" THEN Oldest(Cur) ELSE {})]
    /\ pc' = [pc EXCEPT ![t] = entry]
    /\ UNCHANGED <<buff, readpos, writepos, available, fifo, last, pre, mut,
                   readers>>

\* `auto write = rwlock.writer ();` is the first statement of the call.
CallWriter(t, ops) == \E op \in ops : Begin(t, op, 0, "write_lock")

\* read_all(), safe_read_all() and clear() pass `available` to read(n),
\* safe_read(n) and erase(n): the count is loaded before rwlock is taken.
CallLoaded(t, ops) ==
    /\ available \in Args
    /\ \E op \in ops : Begin(t, op, available, "write_lock")

\* `auto read = rwlock.reader ();` is the first statement of front().
CallFront(t) == Begin(t, "front", 0, "read_lock")

\* The body of a writer's call that ended as outcome r, run in one piece
\* while the thread owns mut.  Calls of front() in progress see the oldest
\* element change.
Run(t, r) ==
    /\ pc[t] = "body"
    /\ buff' = r.s.buff
    /\ readpos' = r.s.readpos
    /\ writepos' = r.s.writepos
    /\ available' = r.s.available
    /\ fifo' = r.s.fifo
    /\ req' = [u \in Thread |->
                 IF u = t
                 THEN [req[t] EXCEPT !.status = r.status]
                 ELSE IF pc[u] # "idle" /\ req[u].op = "front"
                 THEN [req[u] EXCEPT !.seen = @ \cup Oldest(r.s)]
                 ELSE req[u]]
    /\ pc' = [pc EXCEPT ![t] = Leave(r.status)]
    /\ UNCHANGED <<last, pre, mut, readers>>

DoEmplace(t) ==
    /\ req[t].op = "emplace"
    /\ \E v \in Values, fail \in {FALSE} \cup {HasRoom(Cur)} :
           Run(t, emplace(Cur, v, fail))

DoPop(t) ==
    /\ req[t].op = "pop"
    /\ Run(t, pop(Cur))

DoRead(t) ==
    /\ req[t].op = "read"
    /\ \E fail \in {FALSE} \cup {available # 0} : Run(t, read(Cur, fail))

DoReadN(t) ==
    /\ req[t].op = "read_n"
    /\ \E n \in Args : \E failAt \in 0 .. Copies(n) :
           Run(t, read_n(Cur, n, failAt))

DoReadAll(t) ==
    /\ req[t].op = "read_all"
    /\ \E failAt \in 0 .. Copies(req[t].n) :
           Run(t, read_n(Cur, req[t].n, failAt))

DoErase(t) ==
    /\ req[t].op = "erase"
    /\ \E n \in Args : Run(t, erase(Cur, n))

DoClear(t) ==
    /\ req[t].op = "clear"
    /\ Run(t, erase(Cur, req[t].n))

\* safe_read(n) with n > available throws out_of_range.  Otherwise it calls
\* temporary_copy(n), whose first statement is `auto read = rwlock.reader ();`.
DoSafeRead(t) ==
    /\ req[t].op \in SafeReadOps
    /\ \E n \in IF req[t].op = "safe_read" THEN Args ELSE {req[t].n} :
           IF Enough(Cur, n)
           THEN /\ pc[t] = "body"
                /\ pc' = [pc EXCEPT ![t] = "read_lock"]
                /\ req' = [req EXCEPT ![t].n = n]
                /\ UNCHANGED <<buff, readpos, writepos, available, fifo, last,
                               pre, mut, readers>>
           ELSE Run(t, safe_read(Cur, n, FALSE, <<>>))

\* mut.lock (); readers += 1; mut.unlock ();
\* mut.lock() returns once no thread owns mut.  Called by the thread that
\* owns mut (a std::mutex) it never returns: the thread blocks for ever, or
\* the program is terminated.  From front() the reader section follows; the
\* reader section of temporary_copy() is entered from safe_read() only.
read_lock(t) ==
    /\ pc[t] = "read_lock"
    /\ mut = Unlocked
    /\ readers' = readers + 1
    /\ pc' = [pc EXCEPT ![t] =
                 IF req[t].op = "front" THEN "front" ELSE "temporary_copy"]
    /\ UNCHANGED <<buff, readpos, writepos, available, fifo, last, pre, mut,
                   req>>

\* if (available.load ()) ... else throw std::out_of_range
FrontCheck(t) ==
    /\ pc[t] = "front"
    /\ IF available # 0
       THEN /\ pc' = [pc EXCEPT ![t] = "front_copy"]
            /\ UNCHANGED req
       ELSE /\ pc' = [pc EXCEPT ![t] = "read_unlock"]
            /\ req' = [req EXCEPT ![t].status = "out_of_range"]
    /\ UNCHANGED <<buff, readpos, writepos, available, fifo, last, pre, mut,
                   readers>>

\* return *readpos; the copy may throw.
FrontCopy(t) ==
    /\ pc[t] = "front_copy"
    /\ \E fail \in BOOLEAN :
           req' = [req EXCEPT ![t].status =
                                  IF fail THEN "element_failure" ELSE "ok",
                              ![t].ret =
                                  IF fail THEN <<>> ELSE <<buff[readpos]>>]
    /\ pc' = [pc EXCEPT ![t] = "read_unlock"]
    /\ UNCHANGED <<buff, readpos, writepos, available, fifo, last, pre, mut,
                   readers>>

\* if (readers.load()) readers -= 1;
Released_Never(r) == r

Released(r) == IF r # 0 THEN r - 1 ELSE r

\* ~reader_entity calls read_unlock.  The call is over.
read_unlock(t) ==
    /\ pc[t] = "read_unlock"
    /\ readers' = Released(readers)
    /\ pc' = [pc EXCEPT ![t] = "idle"]
    /\ req' = [req EXCEPT ![t] = NoCall]
    /\ UNCHANGED <<buff, readpos, writepos, available, fifo, last, pre, mut>>

\* ~writer_entity: mut.unlock ();  The call is over.
writer_exit(t) ==
    /\ pc[t] = "write_unlock"
    /\ mut' = Unlocked
    /\ pc' = [pc EXCEPT ![t] = "idle"]
    /\ req' = [req EXCEPT ![t] = NoCall]
    /\ UNCHANGED <<buff, readpos, writepos, available, fifo, last, pre,
                   readers>>

\* size() and capacity() load the count and take no lock.
Observe(t) ==
    /\ pc[t] = "idle"
    /\ \E op \in {"size", "capacity"} :
           req' = [req EXCEPT ![t] =
                      [Request(op, 0, {}) EXCEPT
                          !.status = "ok",
                          !.ret = IF op = "size" THEN <<size(Cur)>>
                                  ELSE <<capacity(Cur)>>]]
    /\ UNCHANGED <<buff, readpos, writepos, available, fifo, last, pre, mut,
                   readers, pc>>

\* The steps of a call once it has begun.
Steps(t) ==
    \/ write_lock(t)
    \/ DoEmplace(t)
    \/ DoPop(t)
    \/ DoRead(t)
    \/ DoReadN(t)
    \/ DoReadAll(t)
    \/ DoErase(t)
    \/ DoClear(t)
    \/ DoSafeRead(t)
    \/ writer_exit(t)
    \/ read_lock(t)
    \/ FrontCheck(t)
    \/ FrontCopy(t)
    \/ read_unlock(t)

\* Every operation that takes rwlock, called from every thread.
NextRwlock ==
    \E t \in Thread :
        \/ CallWriter(t, Writers)
        \/ CallLoaded(t, Loaded)
        \/ CallFront(t)
        \/ Steps(t)

SpecRwlock == Init /\ [][NextRwlock]_vars

\* Every operation, called by one thread while the others are idle.
Solo == CHOOSE t \in Thread : \A u \in Thread : t <= u

NextSolo ==
    \E t \in {Solo} :
        \/ CallWriter(t, Writers)
        \/ CallLoaded(t, Loaded)
        \/ CallFront(t)
        \/ Steps(t)

SpecSolo == Init /\ [][NextSolo]_vars

\* One thread calls emplace over and over while the other threads call
\* size() and capacity().
NextObservers ==
    \/ CallWriter(Solo, {"emplace"})
    \/ write_lock(Solo)
    \/ DoEmplace(Solo)
    \/ writer_exit(Solo)
    \/ \E t \in Thread \ {Solo} : Observe(t)

SpecObservers == Init /\ [][NextObservers]_vars

\* ----------------------------------------------------------- properties
\* The last call was one of `ops` and ended as `status`.
Ended(ops, status) == last.op \in ops /\ last.status = status

BulkRead == {"read_n", "read_all"}
SafeRead == {"safe_read", "safe_read_all"}

\* s holds the cursor identity: the write cursor is the read cursor
\* advanced by the count, modulo the capacity.
CursorIdentity(s) == s.writepos = (s.readpos + s.available) % N

\* q starts with the elements of r, in r's order.
StartsWith(q, r) ==
    /\ Len(r) <= Len(q)
    /\ \A k \in 1 .. Len(r) : r[k] = q[k]

\* C1: after every call that completes successfully the write cursor equals
\* the read cursor advanced by the count modulo the capacity.
C1_CursorInvariant == last.status = "ok" => CursorIdentity(Cur)

\* C2: in every reachable state 0 <= available <= N, so size() and capacity()
\* both lie in 0..N.
C2_CountBounds ==
    /\ available \in 0 .. N
    /\ size(Cur) \in 0 .. N
    /\ capacity(Cur) \in 0 .. N

\* C3: a read(n) with n <= size() and no element failure returns exactly the
\* n oldest live elements, oldest first.
C3_ReadNOldestFirst ==
    Ended(BulkRead, "ok") =>
        /\ Len(last.ret) = last.n
        /\ StartsWith(pre.fifo, last.ret)

\* C4: a successful read(n) removes exactly n elements: the count drops by n
\* and the read cursor advances by n modulo the capacity.
C4_ReadNRemovesN ==
    Ended(BulkRead, "ok") =>
        /\ available = pre.available - last.n
        /\ readpos = (pre.readpos + last.n) % N

\* C5: a safe_read(n) with n <= size() and no element failure returns exactly
\* the n oldest live elements, oldest first.
C5_SafeReadOldestFirst ==
    Ended(SafeRead, "ok") =>
        /\ Len(last.ret) = last.n
        /\ StartsWith(pre.fifo, last.ret)

\* C6: a successful safe_read(n) leaves the count n lower, the read cursor
\* advanced by n modulo the capacity and the write cursor where it was.
C6_SafeReadRemovesN ==
    Ended(SafeRead, "ok") =>
        /\ available = pre.available - last.n
        /\ readpos = (pre.readpos + last.n) % N
        /\ writepos = pre.writepos

\* A successful safe_read of a span that passes the last slot.
C6_Witness ==
    /\ Ended(SafeRead, "ok")
    /\ last.n >= 2
    /\ pre.readpos + last.n > N

\* C7: when a copy fails during safe_read(n) the count, both cursors and
\* every element are as before the call.
C7_SafeReadStrong == Ended(SafeRead, "element_failure") => Cur = pre

\* A safe_read of two or more live elements whose copy failed.
C7_Witness ==
    /\ Ended(SafeRead, "element_failure")
    /\ last.n >= 2
    /\ pre.available = last.n
    /\ CursorIdentity(pre)

\* C8: when the copy fails in read(n) after k elements were delivered, the
\* count is k lower, the read cursor k further, and the cursor identity holds.
C8_ReadNBasic ==
    Ended(BulkRead, "element_failure") =>
        LET k == Len(last.ret)
        IN  /\ available = pre.available - k
            /\ readpos = (pre.readpos + k) % N
            /\ CursorIdentity(Cur)

\* C9: read(n) and safe_read(n) with n > size() fail with out_of_range and
\* change nothing.
C9_TooManyRejected ==
    (last.op \in BulkRead \cup SafeRead /\ last.n > pre.available) =>
        /\ last.status = "out_of_range"
        /\ Cur = pre

\* A read(size() + 1) on a buffer that holds elements.
C9_Witness ==
    /\ last.op = "read_n"
    /\ last.n = pre.available + 1
    /\ pre.available >= 1
    /\ last.status = "out_of_range"

\* C10: emplace on a full buffer does not fail and changes nothing.
C10_EmplaceFullNoOp ==
    (last.op = "emplace" /\ pre.available = N) =>
        /\ last.status = "ok"
        /\ Cur = pre

\* An emplace on a buffer that holds N elements.
C10_Witness ==
    /\ last.op = "emplace"
    /\ pre.available = N
    /\ Len(pre.fifo) = N
    /\ pre.fifo[1] = pre.buff[pre.readpos]

\* The elements of s that reads deliver: s.available slots from the read
\* cursor on, wrapping past the last slot (for a count within the capacity).
LiveSeq(s) == [k \in 1 .. s.available |-> s.buff[(s.readpos + k - 1) % N]]

\* C11: emplace on a buffer that is not full stores the element in the slot
\* at the write cursor, advances the write cursor by one modulo the capacity
\* and increments the count; the read cursor and the elements that were live
\* stay as they were, and the new element is the last one reads deliver.
C11_EmplaceAppends ==
    (Ended({"emplace"}, "ok") /\ pre.available < N) =>
        /\ buff[pre.writepos] = last.n
        /\ writepos = (pre.writepos + 1) % N
        /\ available = pre.available + 1
        /\ readpos = pre.readpos
        /\ \A k \in 1 .. pre.available :
               buff[(pre.readpos + k - 1) % N] = LiveSeq(pre)[k]
        /\ LiveSeq(Cur) = Append(LiveSeq(pre), last.n)

\* C13: pop on a buffer that is not empty advances the read cursor by one
\* modulo the capacity, lowers the count by one and leaves the write cursor;
\* the element that was second oldest, if there is one, is what front()
\* returns afterwards.
C13_PopRemovesOldest ==
    (last.op = "pop" /\ pre.available # 0) =>
        /\ last.status = "ok"
        /\ readpos = (pre.readpos + 1) % N
        /\ available = pre.available - 1
        /\ writepos = pre.writepos
        /\ Len(pre.fifo) >= 2 =>
               front(Cur) = Outcome(Cur, "ok", <<pre.fifo[2]>>)

\* C14: pop, and erase(0), on a buffer whose count is 0 do not fail and
\* leave the buffer as it was, each time they are called.
C14_EmptyPopEraseNoOp ==
    (/\ last.op = "pop" \/ (last.op = "erase" /\ last.n = 0)
     /\ pre.available = 0) =>
        /\ last.status = "ok"
        /\ Cur = pre

\* A pop on a buffer that was filled and emptied again.
C14_Witness ==
    /\ last.op = "pop"
    /\ pre.available = 0
    /\ pre.fifo = <<>>
    /\ pre.readpos = 1
    /\ pre.writepos = 1

\* C15: front() on a buffer that is not empty returns the oldest live
\* element, on an empty buffer it fails with out_of_range; either way the
\* buffer is as it was.
C15_FrontOldest ==
    last.op = "front" =>
        /\ Cur = pre
        /\ pre.available # 0 =>
               /\ last.status = "ok"
               /\ Len(pre.fifo) >= 1
               /\ last.ret = <<pre.fifo[1]>>
        /\ pre.available = 0 => last.status = "out_of_range"

\* C16: read() on a buffer that is not empty returns the oldest element and
\* removes exactly one (count minus one, read cursor plus one modulo the
\* capacity); on an empty buffer it fails with out_of_range.
C16_ReadOldest ==
    (last.op = "read" /\ last.status # "element_failure") =>
        /\ pre.available # 0 =>
               /\ last.status = "ok"
               /\ Len(pre.fifo) >= 1
               /\ last.ret = <<pre.fifo[1]>>
               /\ available = pre.available - 1
               /\ readpos = (pre.readpos + 1) % N
        /\ pre.available = 0 => last.status = "out_of_range"

\* C17: whenever read() fails, on an empty buffer or because the copy of the
\* returned element fails, the count and both cursors are as before the call.
C17_ReadStrong ==
    (last.op = "read" /\ last.status # "ok") =>
        /\ available = pre.available
        /\ readpos = pre.readpos
        /\ writepos = pre.writepos

\* k consecutive calls of pop, starting from s.
RECURSIVE PopTimes(_, _)
PopTimes(s, k) == IF k = 0 THEN s ELSE PopTimes(pop(s).s, k - 1)

\* C20: erase(n) does not fail, and leaves the count, the read cursor and the
\* write cursor as min(n, size()) consecutive calls of pop would.
C20_EraseIsPops ==
    last.op = "erase" =>
        /\ last.status = "ok"
        /\ LET r == PopTimes(pre, Min(last.n, size(pre)))
           IN  /\ available = r.available
               /\ readpos = r.readpos
               /\ writepos = r.writepos

\* An erase of more elements than the buffer holds, on a buffer holding some.
C20_Witness ==
    /\ last.op = "erase"
    /\ pre.available = 2
    /\ Len(pre.fifo) = 2
    /\ last.n > 2
    /\ available = 0

\* C12: when the construction of the element fails inside emplace, the write
\* cursor, the read cursor and the count are as before the call, and once
\* the call has been left its thread no longer owns the mutex.
C12_EmplaceFailure ==
    /\ Ended({"emplace"}, "element_failure") =>
           /\ writepos = pre.writepos
           /\ readpos = pre.readpos
           /\ available = pre.available
    /\ \A t \in Thread :
           (/\ pc[t] = "idle"
            /\ req[t].op = "emplace"
            /\ req[t].status = "element_failure") => mut # t

\* A thread's emplace failed on a buffer holding an element, and another
\* thread has taken the mutex since.
C12_Witness ==
    /\ Ended({"emplace"}, "element_failure")
    /\ pre.available = 1
    /\ \E t, u \in Thread :
           /\ pc[t] = "idle"
           /\ req[t].op = "emplace"
           /\ req[t].status = "element_failure"
           /\ mut = u

\* C18: after any sequence of emplace and pop calls, read_all() returns
\* exactly the live elements in the order they were inserted, also when they
\* lie across the end of the array.
C18_FifoAcrossWrap ==
    Ended({"read_all"}, "ok") => last.ret = pre.fifo

\* read_all() of two different elements, the older in the last slot and the
\* newer in the first.
C18_Witness ==
    /\ Ended({"read_all"}, "ok")
    /\ pre.readpos = N - 1
    /\ pre.available = 2
    /\ last.ret = <<1, 2>>

\* C19: in a sequence of emplace and pop calls only, the size after each call
\* is the reference count: one more after an emplace, at most the capacity,
\* and one less after a pop, at least zero, starting from zero.
C19_ReferenceCount ==
    /\ last.op = "ringbuffer" => size(Cur) = 0
    /\ Ended({"emplace"}, "ok") => size(Cur) = Min(size(pre) + 1, N)
    /\ last.op = "pop" =>
           size(Cur) = IF size(pre) = 0 THEN 0 ELSE size(pre) - 1

\* An emplace on a full buffer after the count has gone down and up again.
C19_Witness ==
    /\ Ended({"emplace"}, "ok")
    /\ size(pre) = N
    /\ size(Cur) = N
    /\ pre.readpos # 0

\* C21: after clear() the size is 0, the remaining capacity is N, the read
\* cursor equals the write cursor, a following front() or read() fails with
\* out_of_range and a following emplace is accepted.
C21_ClearEmpties ==
    last.op = "clear" =>
        /\ last.status = "ok"
        /\ size(Cur) = 0
        /\ capacity(Cur) = N
        /\ readpos = writepos
        /\ front(Cur).status = "out_of_range"
        /\ read(Cur, FALSE).status = "out_of_range"
        /\ \A v \in Values : size(emplace(Cur, v, FALSE).s) = 1

\* C27: wrapfront from the slot with index i by n, for every n including 0,
\* N and more than N, returns the slot with index (i + n) mod N: a slot of
\* the array, and the starting slot when n is 0 or N.
C27_WrapfrontModular ==
    last.op = "wrapfront" =>
        /\ readpos = (pre.readpos + last.n) % N
        /\ readpos \in Index
        /\ last.n \in {0, N} => readpos = pre.readpos

\* An advance of more than twice the capacity from the last slot.
C27_Witness ==
    /\ last.op = "wrapfront"
    /\ pre.readpos = N - 1
    /\ last.n = 2 * N + 2
    /\ readpos = 1

\* Thread t is inside the exclusive section of a writer's call: it has taken
\* mut in write_lock and has not given it back.
InExclusive(t) ==
    \/ pc[t] \in {"body", "write_unlock"}
    \/ pc[t] \in {"read_lock", "temporary_copy"} /\ req[t].op \in SafeReadOps

\* Thread t is inside a reader section: it has counted itself in `readers`
\* and has not left.
InReader(t) == pc[t] \in {"front", "front_copy", "read_unlock", "temporary_copy"}

\* C22: in every interleaving at most one thread at a time is inside the
\* exclusive section of emplace, pop, read(), read(n), safe_read(n), erase
\* or clear, and that thread owns the mutex.
C22_MutatorsExclude ==
    \A t \in Thread :
        InExclusive(t) =>
            /\ mut = t
            /\ \A u \in Thread : InExclusive(u) => u = t

\* One thread is in the body of erase while another, which called read(n),
\* spins in write_lock.
C22_Witness ==
    \E t, u \in Thread :
        /\ pc[t] = "body"
        /\ req[t].op = "erase"
        /\ pc[u] = "write_lock"
        /\ req[u].op = "read_n"
        /\ available = 2

\* C24: a thread that is not executing an operation does not own the mutex
\* and is not counted as a reader, whichever way its operations were left;
\* when no thread is executing an operation the mutex is unlocked and the
\* reader count is 0.
C24_ScopedRelease ==
    /\ \A t \in Thread : pc[t] = "idle" => mut # t
    /\ readers = Cardinality({t \in Thread : InReader(t)})
    /\ (\A t \in Thread : pc[t] = "idle") =>
           /\ mut = Unlocked
           /\ readers = 0

\* No thread is executing an operation, after an emplace whose constructor
\* threw (the first slot holds no object and nothing was ever stored).
C24_Witness ==
    /\ \A t \in Thread : pc[t] = "idle"
    /\ mut = Unlocked
    /\ readers = 0
    /\ buff[0] = Destroyed
    /\ writepos = 0
    /\ readpos = 0
    /\ available = 0

\* C25: while a thread is inside a reader section, no other thread is inside
\* an exclusive section; several threads may be inside reader sections.
C25_ReadersExcludeWriters ==
    \A t, u \in Thread :
        (InReader(t) /\ t # u) => ~InExclusive(u)

\* C29: a value front() returns while other threads mutate the buffer is the
\* value of an element that was the oldest live element at some instant
\* between the call of front() and its return; it is never the content of
\* a slot that holds no live element.
C29_FrontReturnsAnOldest ==
    \A t \in Thread :
        (/\ pc[t] = "read_unlock"
         /\ req[t].op = "front"
         /\ req[t].status = "ok") =>
            /\ Len(req[t].ret) = 1
            /\ req[t].ret[1] \in req[t].seen

\* C30: read_all() does not fail with out_of_range, whatever other threads
\* remove between its call and its taking of exclusive access: the number
\* of elements it asks for is the count at the moment exclusive access is
\* held.
C30_ReadAllAsksForTheCount ==
    \A t \in Thread :
        req[t].op = "read_all" =>
            /\ pc[t] = "body" => req[t].n = available
            /\ pc[t] = "write_unlock" => req[t].status # "out_of_range"

\* C26: every operation a single thread issues on the concurrent variant
\* completes, as it does on the single threaded variant: a call in progress
\* always has a next step.
C26_SoloCallCompletes ==
    pc[Solo] # "idle" => ENABLED NextSolo

\* C28: a thread never tries to acquire the mutex while it owns it, so a
\* call of safe_read(n) or safe_read_all() on an otherwise idle buffer is
\* never left waiting in read_lock for the mutex it took in write_lock.
C28_NoSelfDeadlock ==
    \A t \in Thread : pc[t] = "read_lock" => mut # t

\* C23: while one thread calls emplace over and over, every value that
\* size() or capacity() returns to another thread lies in 0 .. N.
C23_ObservedInRange ==
    \A t \in Thread :
        req[t].op \in {"size", "capacity"} =>
            /\ Len(req[t].ret) = 1
            /\ req[t].ret[1] \in 0 .. N

\* capacity() returned 0 to a thread while the emplacing thread was inside
\* another call of emplace.
C23_Witness ==
    \E t \in Thread :
        /\ req[t].op = "capacity"
        /\ req[t].ret = <<0>>
        /\ pc[Solo] = "body"
        /\ available = N

\* C31: the temporary copy made by a safe_read(n) with n <= size() reads
\* exactly n slots in total, and every slot it reads has an index in
\* 0 .. N - 1.
C31_CopyStaysInBounds ==
    (Ended(SafeRead, "ok") /\ last.n <= pre.available) =>
        LET slots == SlotsRead(pre, last.n)
        IN  /\ Len(slots) = last.n
            /\ \A k \in 1 .. Len(slots) : slots[k] \in Index

Removing == {"pop", "erase", "clear", "read", "read_n", "read_all",
             "safe_read", "safe_read_all"}

\* The slots of the elements the last call removed from the buffer.
Removed ==
    IF last.op \in Removing
    THEN {wrapfront(pre.readpos, k) :
              k \in 0 .. (Len(pre.fifo) - Len(fifo) - 1)}
    ELSE {}

\* emplace constructs only into a slot that holds no object.
ConstructsIntoDestroyed ==
    LET c == Constructs(last.op, pre)
    IN  \A k \in 1 .. Len(c) : pre.buff[c[k]] = Destroyed

\* No destructor call, the buffer's own destruction included, runs on a
\* slot that holds no object.
DestroysOnlyLive ==
    LET d == Destroys(last.op, last.n, pre)
    IN  \A k \in 1 .. Len(d) :
            /\ pre.buff[d[k]] # Destroyed
            /\ \A j \in 1 .. (k - 1) : d[j] # d[k]

\* The call runs the destructor exactly once on the slot of every element
\* it removes.
RemovalDestroysOnce ==
    LET d == Destroys(last.op, last.n, pre)
    IN  \A i \in Removed : Cardinality({k \in 1 .. Len(d) : d[k] = i}) = 1

\* C32: over any sequence of calls ending with the destruction of the
\* buffer, constructions and destructions alternate on every slot: emplace
\* constructs only into a slot whose object has been destroyed, no slot is
\* destroyed twice without a construction in between, and every removal by
\* pop, erase, read(), read(n) or safe_read destroys the removed element
\* exactly once.
C32_BalancedLifetimes ==
    /\ ConstructsIntoDestroyed
    /\ DestroysOnlyLive
    /\ RemovalDestroysOnce

====
